---- MODULE Spec2Model ----
(***************************************************************************)
(* Part 1 (specification Spec): checkpoint / resume behaviour of           *)
(* BaseOfflineRequestProcessor.process_requests_from_file                  *)
(* (request_processor/offline/base_offline_request_processor.py).          *)
(* Part 2 (SpecOnline): OpenAIOnlineRequestProcessor, its construction,    *)
(* call_single_request and the dispatcher that admits requests.            *)
(* Part 3 (SpecEstimate): estimate_total_tokens.                           *)
(* Part 4 (SpecCache): fingerprints and the cache of curator.LLM as the    *)
(* tests of tests/test_caching.py use them.                                *)
(* Part 5 (SpecCall): call_single_request as a function of the response.   *)
(* Part 6 (SpecSupport): check_structured_output_support.                  *)
(* Part 7 (SpecCount): count_lines of file_utilities.py.                   *)
(* Part 8 (SpecBatch): requests_to_responses over a list of request files. *)
(* Part 9 (SpecCompact): the resume compaction applied to a log, twice.    *)
(*                                                                         *)
(* A file is a sequence of tokens.  A response written by json.dumps is    *)
(* one "json" token, the "\n" that follows it is one "nl" token, and a     *)
(* response whose text was cut short by an interrupted write is one "cut"  *)
(* token.  Reading a file line by line splits it after every "nl" token.   *)
(* Of a response only the three fields the resume logic looks at are kept: *)
(* row (generic_request.original_row_idx), err (response_errors is         *)
(* non-empty) and msg (response_message is not None).                      *)
(***************************************************************************)
EXTENDS Integers, Sequences, FiniteSets, TLC

\* Number of rows of the request file.
NumRows == 2

\* Number of tasks handed to process_requests in one behaviour, over all
\* the calls of process_requests_from_file.
MaxTasks == 4

\* Seconds during which the dispatcher admits nothing after a rate-limit
\* error.
Cooldown == 2

\* Last value of the clock of the dispatcher.
MaxTime == 5

\* Failed calls after which a request is no longer retried.
MaxRetries == 1

\* Longest message list handed to estimate_total_tokens.
MaxMsgs == 2

\* Number of pipeline runs in one behaviour.
MaxRuns == 3

\* Number of calls of call_single_request on one status tracker.
MaxCalls == 2

\* Longest response log, in tokens, given to the resume compaction.
MaxLogLen == 3

\* Longest model name, in pieces separated by "-".
MaxPieces == 3

\* Longest file, in bytes, given to count_lines.
MaxBytes == 4

\* Most bytes one read returns (1024 * 1024 in file_utilities.py, scaled
\* down to the files of the model).
ChunkSize == 2

VARIABLES
    save_exists,      \* os.path.exists(save_filepath)
    save,             \* content of save_filepath on disk
    buffered,         \* text given to f.write of the save loop, not yet flushed
    temp_exists,      \* os.path.exists(save_filepath + ".temp")
    temp,             \* text given to the temp file (on disk once flushed)
    pc,               \* position of process_requests_from_file
    resume,           \* argument resume
    resume_no_retry,  \* argument resume_no_retry
    user_input,       \* answer given to input(), "none" before it is asked
    lines,            \* lines of input_file not yet iterated
    completed_request_ids,
    num_previously_failed_requests,
    has_model_class,  \* hasattr(self, "model_class")
    load_called,      \* load_offline_model was called by this run
    requests,         \* task ids of the list passed to process_requests
    responses,        \* responses produced by process_requests so far
    written,          \* number of responses already written by the save loop
    orig_exists,      \* save_exists when the run was called
    orig,             \* save when the run was called
    tasks_started     \* number of tasks handed to process_requests so far

offlineVars ==
    <<save_exists, save, buffered, temp_exists, temp, pc, resume,
      resume_no_retry, user_input, lines, completed_request_ids,
      num_previously_failed_requests, has_model_class, load_called,
      requests, responses, written, orig_exists, orig, tasks_started>>

\* State of an OpenAIOnlineRequestProcessor and of its dispatcher
VARIABLES
    on_pc,            \* "new", "raised" (ValueError), "error" or "ready"
    api_key,          \* self.api_key
    encoding_fetches, \* requests tiktoken sent to fetch the encoding
    probes,           \* requests sent by get_header_based_rate_limits
    hdr_rpm,          \* x-ratelimit-limit-requests of the probe, -1: absent
    hdr_tpm,          \* x-ratelimit-limit-tokens of the probe, -1: absent
    max_rpm,          \* header_based_max_requests_per_minute
    max_tpm,          \* header_based_max_tokens_per_minute
    clock,            \* time.time()
    task,             \* per request: queued, inflight, raising, succeeded, failed
    attempts,         \* per request: calls that have failed
    tracker,          \* the OnlineStatusTracker counters
    failed_calls,     \* number of calls that ended with an exception
    rl_times,         \* times at which a rate-limit payload arrived
    done_in_cooldown  \* a call returned its response during a cooldown

onlineVars ==
    <<on_pc, api_key, encoding_fetches, probes, hdr_rpm, hdr_tpm, max_rpm,
      max_tpm, clock, task, attempts, tracker, failed_calls, rl_times,
      done_in_cooldown>>

VARIABLES
    est_pc,           \* "idle", "called" or "returned"
    est_messages,     \* the argument messages of estimate_total_tokens
    est_max,          \* litellm.get_max_tokens(model), -1 when it raises
    est_result        \* the value estimate_total_tokens returned, -1 before

estVars == <<est_pc, est_messages, est_max, est_result>>

VARIABLES
    cache_registry,   \* fingerprint -> the dataset stored in its directory
    remote_calls,     \* calls made to the remote model so far
    runs,             \* pipeline runs so far
    process,          \* the process the pipeline runs in
    run_log,          \* the last two runs, oldest first
    inputs_run        \* the inputs that have been run

cacheVars == <<cache_registry, remote_calls, runs, process, run_log, inputs_run>>

VARIABLES
    call_pc,          \* "idle", "sent", "returned" or "raised"
    call_request,     \* the APIRequest of the call
    call_payload,     \* the response the session returns
    call_now,         \* time.time() during the call
    call_tracker,     \* the OnlineStatusTracker handed to the calls
    call_result,      \* the GenericResponse the call returned
    calls_made        \* calls of call_single_request so far

callVars ==
    <<call_pc, call_request, call_payload, call_now, call_tracker, call_result,
      calls_made>>

VARIABLES
    sos_pc,           \* "idle", "called", "returned" or "raised"
    sos_model,        \* self.config.model
    sos_result        \* the value check_structured_output_support returned

sosVars == <<sos_pc, sos_model, sos_result>>

VARIABLES
    cl_pc,            \* "idle", "open" or "returned"
    cl_content,       \* the bytes of the file count_lines reads
    cl_pos,           \* bytes read so far
    cl_sum,           \* sum of the counts of the chunks read so far
    cl_chunks,        \* number of chunks read so far
    cl_result         \* the value count_lines returned, -1 before

clVars == <<cl_pc, cl_content, cl_pos, cl_sum, cl_chunks, cl_result>>

VARIABLES
    rb_pc,            \* "idle", "running", "returned", "raised"
    rb_invocation,    \* "none", "first" or "second" call of requests_to_responses
    rb_files,         \* generic_request_files
    rb_i,             \* files of the list processed in this invocation
    rb_store,         \* response path -> the response file
    rb_temps,         \* response path -> the temp file left next to it
    rb_dirs,          \* the directories that exist below the working directory
    rb_first,         \* rb_store when the first invocation returned
    rb_trace,         \* this invocation: the calls of process_requests_from_file
    rb_dispatched,    \* this invocation: requests handed to process_requests
    rb_prompted       \* this invocation: input() was called

batchVars ==
    <<rb_pc, rb_invocation, rb_files, rb_i, rb_store, rb_temps, rb_dirs,
      rb_first, rb_trace, rb_dispatched, rb_prompted>>

VARIABLES
    cp_pc,            \* "idle", "chosen", "once", "twice" or "raised"
    cp_log,           \* the log before the compaction
    cp_once,          \* log and completed_request_ids after one compaction
    cp_twice          \* the same after a second compaction

compactVars == <<cp_pc, cp_log, cp_once, cp_twice>>

nonOfflineVars ==
    <<onlineVars, estVars, cacheVars, callVars, sosVars, clVars, batchVars,
      compactVars>>

nonOnlineVars ==
    <<offlineVars, estVars, cacheVars, callVars, sosVars, clVars, batchVars,
      compactVars>>

nonEstVars ==
    <<offlineVars, onlineVars, cacheVars, callVars, sosVars, clVars, batchVars,
      compactVars>>

nonCacheVars ==
    <<offlineVars, onlineVars, estVars, callVars, sosVars, clVars, batchVars,
      compactVars>>

nonCallVars ==
    <<offlineVars, onlineVars, estVars, cacheVars, sosVars, clVars, batchVars,
      compactVars>>

nonSosVars ==
    <<offlineVars, onlineVars, estVars, cacheVars, callVars, clVars, batchVars,
      compactVars>>

nonClVars ==
    <<offlineVars, onlineVars, estVars, cacheVars, callVars, sosVars, batchVars,
      compactVars>>

nonBatchVars ==
    <<offlineVars, onlineVars, estVars, cacheVars, callVars, sosVars, clVars,
      compactVars>>

nonCompactVars ==
    <<offlineVars, onlineVars, estVars, cacheVars, callVars, sosVars, clVars,
      batchVars>>

vars ==
    <<offlineVars, onlineVars, estVars, cacheVars, callVars, sosVars, clVars,
      batchVars, compactVars>>

----------------------------------------------------------------------------
\* Files, lines and responses

Rows == 0 .. (NumRows - 1)

\* The request file: one GenericRequest per row, original_row_idx ascending.
reqFile == [i \in 1 .. NumRows |-> i - 1]

Response == [row : Rows, err : BOOLEAN, msg : BOOLEAN]

NL == [kind |-> "nl", row |-> 0, err |-> FALSE, msg |-> FALSE]

JsonTok(r) == [kind |-> "json", row |-> r.row, err |-> r.err, msg |-> r.msg]

CutTok(r) == [kind |-> "cut", row |-> r.row, err |-> r.err, msg |-> r.msg]

\* json.dumps(response.model_dump(), default=str) + "\n"
DumpLine(r) == <<JsonTok(r), NL>>

\* Iterating a text file: every line ends with its "\n", except possibly the
\* last one.
RECURSIVE SplitLines(_, _)
SplitLines(f, cur) ==
    IF f = <<>>
    THEN IF cur = <<>> THEN <<>> ELSE <<cur>>
    ELSE IF Head(f).kind = "nl"
         THEN <<Append(cur, Head(f))>> \o SplitLines(Tail(f), <<>>)
         ELSE SplitLines(Tail(f), Append(cur, Head(f)))

ReadLines(f) == SplitLines(f, <<>>)

\* The text of a line without its trailing "\n".
Body(line) ==
    IF line # <<>> /\ line[Len(line)].kind = "nl"
    THEN SubSeq(line, 1, Len(line) - 1)
    ELSE line

\* GenericResponse.model_validate_json(line) succeeds: the line is exactly one
\* complete JSON document (trailing whitespace allowed).
Validates(line) == Len(Body(line)) = 1 /\ Body(line)[1].kind = "json"

\* GenericResponse.model_validate_json(line)
ModelValidateJson(line) ==
    [row |-> line[1].row, err |-> line[1].err, msg |-> line[1].msg]

\* str.lower() on the answers the model offers.
Lower(s) == IF s = "Y" THEN "y" ELSE s

Answers == {"y", "Y", "", "n"}

\* PromptDeclines with the test inverted.
PromptDeclines_Inverted(u) == Lower(u) \in {"y", ""}

\* user_input.lower() not in ["y", ""]
PromptDeclines(u) == Lower(u) \notin {"y", ""}

----------------------------------------------------------------------------
\* The loop bodies of process_requests_from_file

\* ResumeLine writing the line and one more "\n".
ResumeLine_ExtraNewline(st, line) ==
    LET response == ModelValidateJson(line)
        n1 == IF response.err THEN st.failed + 1 ELSE st.failed
    IN  IF ~response.msg
        THEN [failed |-> n1 + 1, done |-> st.done, out |-> st.out]
        ELSE [failed |-> n1,
              done |-> st.done \cup {response.row},
              out |-> st.out \o line \o <<NL>>]

\* Body of the resume loop for one decoded response: the counter, the
\* completed set and the temp file after the line.
ResumeLine(st, line) ==
    LET response == ModelValidateJson(line)
        n1 == IF response.err THEN st.failed + 1 ELSE st.failed
    IN  IF ~response.msg
        THEN [failed |-> n1 + 1, done |-> st.done, out |-> st.out]
        ELSE [failed |-> n1,
              done |-> st.done \cup {response.row},
              out |-> st.out \o line]

\* NoRetryLine with failed responses left out of the completed set.
NoRetryLine_SkipsFailed(st, line) ==
    LET response == ModelValidateJson(line)
    IN  [failed |-> IF response.err THEN st.failed + 1 ELSE st.failed,
         done |-> IF response.err \/ ~response.msg
                  THEN st.done
                  ELSE st.done \cup {response.row},
         out |-> st.out]

\* Body of the resume_no_retry loop for one decoded response.
NoRetryLine(st, line) ==
    LET response == ModelValidateJson(line)
    IN  [failed |-> IF response.err THEN st.failed + 1 ELSE st.failed,
         done |-> st.done \cup {response.row},
         out |-> st.out]

\* OpenForCompaction with the log itself opened for writing.
OpenForCompaction_InPlace(s) == [save |-> <<>>, temp |-> <<>>]

\* The files after "open(save_filepath, 'r'), open(temp_filepath, 'w')".
OpenForCompaction(s) == [save |-> s, temp |-> <<>>]

\* BuildRequests without the test against the completed set.
BuildRequests_All(file, done) == file

\* The list of task ids built from the request file.
RECURSIVE BuildRequests(_, _)
BuildRequests(file, done) ==
    IF file = <<>>
    THEN <<>>
    ELSE IF Head(file) \notin done
         THEN <<Head(file)>> \o BuildRequests(Tail(file), done)
         ELSE BuildRequests(Tail(file), done)

\* WriteResponse on a file opened with "w" for each response.
WriteResponse_Truncating(f, r) == DumpLine(r)

\* f.write(json_string + "\n") on a file opened with "a".
WriteResponse(f, r) == f \o DumpLine(r)

----------------------------------------------------------------------------
OfflineInit ==
    /\ save_exists = FALSE
    /\ save = <<>>
    /\ buffered = <<>>
    /\ temp_exists = FALSE
    /\ temp = <<>>
    /\ pc = "idle"
    /\ resume = FALSE
    /\ resume_no_retry = FALSE
    /\ user_input = "none"
    /\ lines = <<>>
    /\ completed_request_ids = {}
    /\ num_previously_failed_requests = 0
    /\ has_model_class = FALSE
    /\ load_called = FALSE
    /\ requests = <<>>
    /\ responses = <<>>
    /\ written = 0
    /\ orig_exists = FALSE
    /\ orig = <<>>
    /\ tasks_started = 0

Stopped == {"idle", "returned", "aborted", "raised", "crashed"}

\* A call of process_requests_from_file up to the branch on the existing file.
Call ==
    /\ UNCHANGED nonOfflineVars
    /\ pc \in Stopped
    /\ \E r \in BOOLEAN, nr \in BOOLEAN :
        /\ resume' = r
        /\ resume_no_retry' = nr
        /\ user_input' = "none"
        /\ completed_request_ids' = {}
        /\ num_previously_failed_requests' = 0
        /\ load_called' = FALSE
        /\ requests' = <<>>
        /\ responses' = <<>>
        /\ written' = 0
        /\ orig_exists' = save_exists
        /\ orig' = save
        /\ IF save_exists /\ r
           THEN /\ pc' = "compact"
                /\ lines' = ReadLines(save)
                /\ save' = OpenForCompaction(save).save
                /\ temp' = OpenForCompaction(save).temp
                /\ temp_exists' = TRUE
           ELSE /\ pc' = IF ~save_exists THEN "dispatch"
                         ELSE IF nr THEN "scan" ELSE "prompt"
                /\ lines' = IF save_exists /\ nr THEN ReadLines(save) ELSE <<>>
                /\ UNCHANGED <<save, temp, temp_exists>>
    /\ UNCHANGED <<save_exists, buffered, has_model_class, tasks_started>>

\* One iteration of the resume loop.
CompactLine ==
    /\ UNCHANGED nonOfflineVars
    /\ pc = "compact"
    /\ lines # <<>>
    /\ IF Validates(Head(lines))
       THEN LET st == ResumeLine([failed |-> num_previously_failed_requests,
                                  done |-> completed_request_ids,
                                  out |-> temp], Head(lines))
            IN  /\ num_previously_failed_requests' = st.failed
                /\ completed_request_ids' = st.done
                /\ temp' = st.out
                /\ lines' = Tail(lines)
                /\ pc' = "compact"
       ELSE \* ValidationError leaves the function
            /\ pc' = "raised"
            /\ UNCHANGED <<num_previously_failed_requests,
                           completed_request_ids, temp, lines>>
    /\ UNCHANGED <<save_exists, save, buffered, temp_exists, resume, resume_no_retry,
                   user_input, has_model_class, load_called, requests,
                   responses, written, orig_exists, orig, tasks_started>>

\* os.replace(temp_filepath, save_filepath) after the resume loop.
Replace ==
    /\ UNCHANGED nonOfflineVars
    /\ pc = "compact"
    /\ lines = <<>>
    /\ save' = temp
    /\ temp_exists' = FALSE
    /\ temp' = <<>>
    /\ pc' = "dispatch"
    /\ UNCHANGED <<save_exists, buffered, resume, resume_no_retry, user_input,
                   lines, completed_request_ids, num_previously_failed_requests,
                   has_model_class, load_called, requests, responses, written,
                   orig_exists, orig, tasks_started>>

\* One iteration of the resume_no_retry loop, or its end.
ScanLine ==
    /\ UNCHANGED nonOfflineVars
    /\ pc = "scan"
    /\ IF lines = <<>>
       THEN /\ pc' = "dispatch"
            /\ UNCHANGED <<num_previously_failed_requests,
                           completed_request_ids, lines>>
       ELSE IF Validates(Head(lines))
            THEN LET st == NoRetryLine(
                               [failed |-> num_previously_failed_requests,
                                done |-> completed_request_ids,
                                out |-> <<>>], Head(lines))
                 IN  /\ num_previously_failed_requests' = st.failed
                     /\ completed_request_ids' = st.done
                     /\ lines' = Tail(lines)
                     /\ pc' = "scan"
            ELSE /\ pc' = "raised"
                 /\ UNCHANGED <<num_previously_failed_requests,
                                completed_request_ids, lines>>
    /\ UNCHANGED <<save_exists, save, buffered, temp_exists, temp, resume,
                   resume_no_retry, user_input, has_model_class, load_called,
                   requests, responses, written, orig_exists, orig, tasks_started>>

\* input("... Overwrite? (Y/n): ") and the test of the answer.
Prompt ==
    /\ UNCHANGED nonOfflineVars
    /\ pc = "prompt"
    /\ \E u \in Answers :
        /\ user_input' = u
        /\ pc' = IF PromptDeclines(u) THEN "aborted" ELSE "dispatch"
    /\ UNCHANGED <<save_exists, save, buffered, temp_exists, temp, resume,
                   resume_no_retry, lines, completed_request_ids,
                   num_previously_failed_requests, has_model_class,
                   load_called, requests, responses, written, orig_exists,
                   orig, tasks_started>>

\* Model loading, the request list, and the call of process_requests.
\* load_offline_model of this class is "pass": it assigns no model_class, so
\* hasattr(self, "model_class") is after the call what it was before.
Dispatch ==
    /\ UNCHANGED nonOfflineVars
    /\ pc = "dispatch"
    /\ load_called' = ~has_model_class
    /\ has_model_class' = has_model_class
    /\ requests' = BuildRequests(reqFile, completed_request_ids)
    /\ tasks_started + Len(requests') <= MaxTasks
    /\ tasks_started' = tasks_started + Len(requests')
    /\ pc' = "process"
    /\ UNCHANGED <<save_exists, save, buffered, temp_exists, temp, resume,
                   resume_no_retry, user_input, lines, completed_request_ids,
                   num_previously_failed_requests, responses, written,
                   orig_exists, orig>>

\* process_requests: the next task of the list reaches a terminal state.
TaskCompletes ==
    /\ UNCHANGED nonOfflineVars
    /\ pc = "process"
    /\ Len(responses) < Len(requests)
    /\ \E e \in BOOLEAN, m \in BOOLEAN :
        responses' = Append(responses,
                            [row |-> requests[Len(responses) + 1],
                             err |-> e, msg |-> m])
    /\ UNCHANGED <<save_exists, save, buffered, temp_exists, temp, pc, resume,
                   resume_no_retry, user_input, lines, completed_request_ids,
                   num_previously_failed_requests, has_model_class,
                   load_called, requests, written, orig_exists, orig, tasks_started>>

\* process_requests returns and save_filepath is opened for appending.
OpenSave ==
    /\ UNCHANGED nonOfflineVars
    /\ pc = "process"
    /\ Len(responses) = Len(requests)
    /\ save_exists' = TRUE
    /\ pc' = "write"
    /\ UNCHANGED <<save, buffered, temp_exists, temp, resume, resume_no_retry,
                   user_input, lines, completed_request_ids,
                   num_previously_failed_requests, has_model_class,
                   load_called, requests, responses, written, orig_exists,
                   orig, tasks_started>>

\* One iteration of the save loop, or its end.  f.write puts the line in
\* the buffer of the file, which may flush any part of what it holds; leaving
\* the "with" block flushes the rest.
WriteLine ==
    /\ UNCHANGED nonOfflineVars
    /\ pc = "write"
    /\ IF written < Len(responses)
       THEN LET text == WriteResponse(save \o buffered, responses[written + 1])
                low  == IF Len(save) < Len(text) THEN Len(save) ELSE Len(text)
            IN  \E k \in low .. Len(text) :
                    /\ save' = SubSeq(text, 1, k)
                    /\ buffered' = SubSeq(text, k + 1, Len(text))
                    /\ written' = written + 1
                    /\ pc' = "write"
       ELSE /\ save' = save \o buffered
            /\ buffered' = <<>>
            /\ pc' = "returned"
            /\ UNCHANGED written
    /\ UNCHANGED <<save_exists, temp_exists, temp, resume, resume_no_retry,
                   user_input, lines, completed_request_ids,
                   num_previously_failed_requests, has_model_class,
                   load_called, requests, responses, orig_exists, orig, tasks_started>>

\* What a kill leaves on disk of the text t written through a buffered file
\* that was not closed: the part already flushed, which is any prefix of t,
\* from nothing up to all of it, and may end inside a document.
FlushedPrefixes(t) ==
    { SubSeq(t, 1, k) : k \in 0 .. Len(t) } \cup
    { SubSeq(t, 1, k - 1) \o <<CutTok(t[k])>> :
          k \in { n \in 1 .. Len(t) : t[n].kind = "json" } }

\* The text the resume loop has handed to output_file.write, with the line
\* whose write is in progress.
TempText ==
    IF lines # <<>> /\ Validates(Head(lines))
    THEN ResumeLine([failed |-> 0, done |-> {}, out |-> temp], Head(lines)).out
    ELSE temp

\* The process is killed: its memory is lost, the files stay.  Both loops
\* write through buffered files that are flushed when the "with" block is
\* left, so a kill inside a loop leaves on disk what had been flushed: of
\* the text still in the buffer, and of the line whose write is in progress,
\* any prefix from nothing to all of it.
Crash ==
    /\ UNCHANGED nonOfflineVars
    /\ pc \notin Stopped
    /\ pc' = "crashed"
    /\ IF pc = "write"
       THEN LET pending == IF written < Len(responses)
                           THEN buffered \o DumpLine(responses[written + 1])
                           ELSE buffered
            IN  save' \in { save \o t : t \in FlushedPrefixes(pending) }
       ELSE save' = save
    /\ buffered' = <<>>
    /\ IF pc = "compact"
       THEN temp' \in FlushedPrefixes(TempText)
       ELSE temp' = temp
    /\ resume' = FALSE
    /\ resume_no_retry' = FALSE
    /\ user_input' = "none"
    /\ lines' = <<>>
    /\ completed_request_ids' = {}
    /\ num_previously_failed_requests' = 0
    /\ has_model_class' = FALSE
    /\ load_called' = FALSE
    /\ requests' = <<>>
    /\ responses' = <<>>
    /\ written' = 0
    /\ orig_exists' = FALSE
    /\ orig' = <<>>
    /\ UNCHANGED <<save_exists, temp_exists, tasks_started>>

----------------------------------------------------------------------------
\* OpenAIOnlineRequestProcessor: construction and call_single_request

\* os.getenv("OPENAI_API_KEY"): "None" when the variable is unset.
ApiKeys == {"None", "", "sk-key"}

\* tiktoken.get_encoding("cl100k_base"): the encoding is in the cache of
\* the library, or it is fetched over the network, or the fetch fails and
\* the exception of the library leaves the constructor.
EncodingLoads == {"cached", "fetched", "fetch_failed"}

\* not self.api_key
KeyMissing(k) == k \in {"None", ""}

\* Values of a rate-limit header of the probe response, -1: header absent.
HeaderValues == {-1, 1, 2, 10, 27}

\* int(response.headers.get(name, 0))
HeaderInt(h) == IF h = -1 THEN 0 ELSE h

\* GetHeaderBasedRateLimits with the two results in the wrong order.
GetHeaderBasedRateLimits_Swapped(r, t) ==
    [rpm |-> HeaderInt(t), tpm |-> HeaderInt(r)]

\* The pair returned by get_header_based_rate_limits for the two headers.
GetHeaderBasedRateLimits(r, t) == [rpm |-> HeaderInt(r), tpm |-> HeaderInt(t)]

\* error.get("message", "") of the error payloads of the model; "absent" is
\* an error without a message.
ErrorMessages ==
    {"Rate limit reached for requests", "RATE LIMIT", "Invalid request",
     "absent"}

\* error.get("message", "").lower()
MessageLower(m) ==
    CASE m = "Rate limit reached for requests" -> "rate limit reached for requests"
      [] m = "RATE LIMIT" -> "rate limit"
      [] m = "Invalid request" -> "invalid request"
      [] OTHER -> ""

\* "rate limit" in s, for the lower-case strings above
ContainsRateLimit(s) == s \in {"rate limit reached for requests", "rate limit"}

\* The decoded body and the HTTP status of a response; error = "none" when
\* the body has no "error" key.
Payloads == [error : {"none"} \cup ErrorMessages, status : {200, 500}]

NewTracker ==
    [num_api_errors |-> 0, num_rate_limit_errors |-> 0, num_other_errors |-> 0,
     time_of_last_rate_limit_error |-> 0]

\* CallSingleRequest without the record of the time of the error.
CallSingleRequest_NoTime(tr, payload, now) ==
    IF payload.error # "none"
    THEN IF ContainsRateLimit(MessageLower(payload.error))
         THEN [tracker |->
                  [tr EXCEPT !.num_rate_limit_errors = @ + 1,
                             !.num_other_errors = @ - 1],
               raised |-> TRUE]
         ELSE [tracker |-> [tr EXCEPT !.num_api_errors = @ + 1],
               raised |-> TRUE]
    ELSE [tracker |-> tr, raised |-> payload.status # 200]

\* CallSingleRequest without the test of the HTTP status.
CallSingleRequest_StatusIgnored(tr, payload, now) ==
    IF payload.error # "none"
    THEN LET t1 == [tr EXCEPT !.num_api_errors = @ + 1]
         IN  IF ContainsRateLimit(MessageLower(payload.error))
             THEN [tracker |->
                      [t1 EXCEPT !.time_of_last_rate_limit_error = now,
                                 !.num_rate_limit_errors = @ + 1,
                                 !.num_api_errors = @ - 1,
                                 !.num_other_errors = @ - 1],
                   raised |-> TRUE]
             ELSE [tracker |-> t1, raised |-> TRUE]
    ELSE [tracker |-> tr, raised |-> FALSE]

\* call_single_request from the decoded response on: the tracker after the
\* call and whether the call raised.
CallSingleRequest(tr, payload, now) ==
    IF payload.error # "none"
    THEN LET t1 == [tr EXCEPT !.num_api_errors = @ + 1]
         IN  IF ContainsRateLimit(MessageLower(payload.error))
             THEN [tracker |->
                      [t1 EXCEPT !.time_of_last_rate_limit_error = now,
                                 !.num_rate_limit_errors = @ + 1,
                                 !.num_api_errors = @ - 1,
                                 !.num_other_errors = @ - 1],
                   raised |-> TRUE]
             ELSE [tracker |-> t1, raised |-> TRUE]
    ELSE IF payload.status # 200
         THEN [tracker |-> tr, raised |-> TRUE]
         ELSE [tracker |-> tr, raised |-> FALSE]

OnlineInit ==
    /\ on_pc = "new"
    /\ api_key = "None"
    /\ encoding_fetches = 0
    /\ probes = 0
    /\ hdr_rpm = -1
    /\ hdr_tpm = -1
    /\ max_rpm = 0
    /\ max_tpm = 0
    /\ clock = Cooldown
    /\ task = [r \in Rows |-> "queued"]
    /\ attempts = [r \in Rows |-> 0]
    /\ tracker = NewTracker
    /\ failed_calls = 0
    /\ rl_times = {}
    /\ done_in_cooldown = FALSE

----------------------------------------------------------------------------
\* OpenAIOnlineRequestProcessor.estimate_total_tokens

\* A value of a message: tok is the length of its encoding, chars the
\* length of str(value), enc is FALSE when token_encoding.encode raises
\* TypeError.
Values ==
    { [tok |-> 1, chars |-> 4, enc |-> TRUE],
      [tok |-> 2, chars |-> 9, enc |-> TRUE],
      [tok |-> 3, chars |-> 9, enc |-> FALSE] }

\* The role of a message is one token.
RoleValue == [tok |-> 1, chars |-> 4, enc |-> TRUE]

\* A message is a dictionary with the keys role and content, and
\* possibly name.
Messages ==
    [role : {RoleValue}, content : Values, has_name : {FALSE}, name : {RoleValue}]
        \cup [role : {RoleValue}, content : Values, has_name : {TRUE}, name : Values]

\* What litellm.get_max_tokens returns for the model; -1 stands for the
\* exception it raises on a model it does not know.
MaxTokens == {-1, 4, 9}

EstimateOutputTokens(max) == IF max = -1 THEN 0 ELSE max \div 4

\* The tokens one key/value pair adds.
ValueTokens(v) == IF v.enc THEN v.tok ELSE v.chars \div 4

MessageTokens(m) ==
    4 + ValueTokens(m.role) + ValueTokens(m.content)
      + (IF m.has_name THEN ValueTokens(m.name) - 1 ELSE 0)

RECURSIVE SumMessageTokens(_)
SumMessageTokens(ms) ==
    IF ms = <<>> THEN 0
    ELSE MessageTokens(Head(ms)) + SumMessageTokens(Tail(ms))

EstimateTotalTokens(ms, max) ==
    SumMessageTokens(ms) + 2 + EstimateOutputTokens(max)

\* The messages of the request of a row: row + 1 messages with a role and
\* a content of two tokens.
RequestMessages(row) ==
    [i \in 1 .. (row + 1) |->
        [role |-> RoleValue, content |-> [tok |-> 2, chars |-> 9, enc |-> TRUE],
         has_name |-> FALSE, name |-> RoleValue]]

\* estimate_total_tokens on the request of a row, for a model of which
\* litellm.get_max_tokens returns 4.
Estimate(row) == EstimateTotalTokens(RequestMessages(row), 4)

\* Requests that have been sent and whose call is not yet settled.
InFlight == {r \in Rows : task[r] \in {"inflight", "raising"}}

RECURSIVE SumEstimates(_)
SumEstimates(S) ==
    IF S = {} THEN 0
    ELSE LET r == CHOOSE x \in S : TRUE
         IN  Estimate(r) + SumEstimates(S \ {r})

EstimateInit ==
    /\ est_pc = "idle"
    /\ est_messages = <<>>
    /\ est_max = -1
    /\ est_result = -1

----------------------------------------------------------------------------
\* curator.LLM: fingerprints and the cache

Names == {"prompt_func", "test_func"}

Locations == {"dir_a", "dir_b"}

Literals == {1, 2}

\* The dataset holds one row, "Say '1'" or "Say '2'".
Datasets == {1, 2}

\* A prompt function: its name, the file that defines it, the value it
\* embeds or captures, and the literal of the function it calls.
Definitions == [name : Names, loc : Locations, value : Literals, nested : Literals]

\* Canonical without what the definition calls.
Canonical_Shallow(def) == <<def.value>>

\* The canonical serialization of a definition: its logic, its literals and
\* what it calls, without its name and its location.
Canonical(def) == <<def.value, def.nested>>

\* A hash without collisions on the sequences the model builds.
RECURSIVE Hash(_)
Hash(s) ==
    IF s = <<>> THEN 0
    ELSE Hash(SubSeq(s, 1, Len(s) - 1)) * 3 + s[Len(s)]

GetFunctionHash(def) == Hash(Canonical(def))

Fingerprint_IgnoresDataset(def, ds) == Hash(<<GetFunctionHash(def)>>)

Fingerprint(def, ds) == Hash(<<GetFunctionHash(def), ds>>)

\* What the remote model answers to the prompts of the pipeline.
Execute(def, ds) == <<def.value, def.nested, ds>>

CacheHit_Never(reg, fp) == FALSE

CacheHit(reg, fp) == fp \in DOMAIN reg

CacheInit ==
    /\ cache_registry = <<>>
    /\ remote_calls = 0
    /\ runs = 0
    /\ process = 0
    /\ run_log = <<>>
    /\ inputs_run = {}

----------------------------------------------------------------------------
\* call_single_request, one call at a time

\* A response as call_single_request sees it: the "error" of the body,
\* the HTTP status, and whether the body has the keys "choices" and "usage"
\* of a completion.
CallPayloads ==
    [error : {"none"} \cup ErrorMessages, status : {200, 500},
     wellformed : BOOLEAN]

CallRequests == [generic_request : Rows, created_at : {1, 2}]

CallTimes == {3, 4}

NoResponse ==
    [response_message |-> "None", response_errors |-> "None",
     generic_request |-> -1, created_at |-> -1]

\* The GenericResponse built from a completion.
GenericResponseOf(request, payload) ==
    [response_message |-> "content", response_errors |-> "None",
     generic_request |-> request.generic_request,
     created_at |-> request.created_at]

CallInit ==
    /\ call_pc = "idle"
    /\ call_request = [generic_request |-> 0, created_at |-> 1]
    /\ call_payload = [error |-> "none", status |-> 200, wellformed |-> TRUE]
    /\ call_now = 3
    /\ call_tracker = NewTracker
    /\ call_result = NoResponse
    /\ calls_made = 0

----------------------------------------------------------------------------
\* OpenAIOnlineRequestProcessor.check_structured_output_support

\* A model name is a sequence of pieces joined by "-": <<"gpt-4o", "mini">>
\* is "gpt-4o-mini".  A date is one piece.
Dates == {"2024-05-13", "2024-07-18", "2024-08-06", "2024-12-17"}

Pieces == {"gpt-4o", "GPT-4O", "o1", "mini", "preview"} \cup Dates

ModelNames == UNION { [1 .. n -> Pieces] : n \in 1 .. MaxPieces }

\* self.config.model.lower()
LowerName(name) ==
    [i \in DOMAIN name |-> IF name[i] = "GPT-4O" THEN "gpt-4o" ELSE name[i]]

\* The pattern, the pieces pat followed by "-", starts at piece i of name.
OccursAt(name, pat, i) ==
    /\ i + Len(pat) <= Len(name)
    /\ SubSeq(name, i, i + Len(pat) - 1) = pat

\* pattern in model_name
Contains(name, pat) == \E i \in 1 .. Len(name) : OccursAt(name, pat, i)

FirstOccurrence(name, pat) ==
    CHOOSE i \in 1 .. Len(name) :
        /\ OccursAt(name, pat, i)
        /\ \A j \in 1 .. (i - 1) : ~OccursAt(name, pat, j)

\* model_name.split(pattern)[1]: the text between the first occurrence of
\* the pattern and the next one; dash tells that a "-" ends it.
SplitSecond(name, pat) ==
    LET rest == SubSeq(name, FirstOccurrence(name, pat) + Len(pat), Len(name))
    IN  IF Contains(rest, pat)
        THEN [pieces |-> SubSeq(rest, 1, FirstOccurrence(rest, pat) - 1),
              dash |-> FirstOccurrence(rest, pat) > 1]
        ELSE [pieces |-> rest, dash |-> FALSE]

\* datetime.datetime.strptime(text, "%Y-%m-%d") does not raise ValueError.
StrptimeParses(text) ==
    /\ ~text.dash
    /\ Len(text.pieces) = 1
    /\ text.pieces[1] \in Dates

\* The date as the number yyyymmdd.
DateNumber(d) ==
    CASE d = "2024-05-13" -> 20240513
      [] d = "2024-07-18" -> 20240718
      [] d = "2024-08-06" -> 20240806
      [] d = "2024-12-17" -> 20241217

\* check_structured_output_support: "True", "False", or the exception that
\* leaves it.  "datetime(2024, 7, 18)" calls the module datetime, which
\* raises TypeError.
CheckStructuredOutputSupport(model) ==
    LET model_name == LowerName(model)
        mini == <<"gpt-4o", "mini">>
        base == <<"gpt-4o">>
        o1   == <<"o1">>
        dated(pat, threshold) ==
            DateNumber(SplitSecond(model_name, pat).pieces[1]) >= threshold
    IN  IF model_name = mini THEN "True"
        ELSE IF Contains(model_name, mini)
        THEN IF ~StrptimeParses(SplitSecond(model_name, mini))
             THEN "ValueError"
             ELSE "TypeError"
        ELSE IF model_name \in {base, o1} THEN "True"
        ELSE IF Contains(model_name, base)
                  /\ ~StrptimeParses(SplitSecond(model_name, base))
        THEN "ValueError"
        ELSE IF Contains(model_name, base) /\ dated(base, 20240806)
        THEN "True"
        ELSE IF Contains(model_name, o1)
                  /\ ~StrptimeParses(SplitSecond(model_name, o1))
        THEN "ValueError"
        ELSE IF Contains(model_name, o1) /\ dated(o1, 20241217)
        THEN "True"
        ELSE "False"

SupportInit ==
    /\ sos_pc = "idle"
    /\ sos_model = <<"gpt-4o">>
    /\ sos_result = "None"

----------------------------------------------------------------------------
\* file_utilities.count_lines

\* The bytes of the model: a letter, "\n" and "\r".
Bytes == {"x", "\n", "\r"}

FileContents == UNION { [1 .. n -> Bytes] : n \in 0 .. MaxBytes }

\* CountNewlines counting lines instead, as len(buf.splitlines()) would.
CountNewlines_Lines(buf) ==
    Cardinality({i \in 1 .. Len(buf) : buf[i] = "\n"})
        + (IF buf # <<>> /\ buf[Len(buf)] # "\n" THEN 1 ELSE 0)

\* buf.count(b"\n")
CountNewlines(buf) == Cardinality({i \in 1 .. Len(buf) : buf[i] = "\n"})

CountInit ==
    /\ cl_pc = "idle"
    /\ cl_content = <<>>
    /\ cl_pos = 0
    /\ cl_sum = 0
    /\ cl_chunks = 0
    /\ cl_result = -1

----------------------------------------------------------------------------
\* requests_to_responses: process_requests_from_file as one step per file

\* A path is a sequence of pieces of text; "requests_" is always a piece of
\* its own.
RequestFiles ==
    { <<"requests_", "0.jsonl">>,
      <<"requests_", "1.jsonl">>,
      <<"requests_", "a/", "requests_", "0.jsonl">> }

\* StrReplace on the first occurrence only.
StrReplace_FirstOnly(path) ==
    [i \in DOMAIN path |->
        IF path[i] = "requests_" /\ \A j \in 1 .. (i - 1) : path[j] # "requests_"
        THEN "responses_" ELSE path[i]]

\* request_file.replace("requests_", "responses_")
StrReplace(path) ==
    [i \in DOMAIN path |-> IF path[i] = "requests_" THEN "responses_" ELSE path[i]]

ResponsePaths == { StrReplace(f) : f \in RequestFiles }

\* The pieces of a path that end a directory name.
DirPieces == {"a/"}

\* The directory of a path: the path up to its last "/", <<>> for a file of
\* the working directory.
DirName(path) ==
    LET ends == { i \in DOMAIN path : path[i] \in DirPieces }
    IN  IF ends = {} THEN <<>>
        ELSE SubSeq(path, 1, CHOOSE i \in ends : \A j \in ends : j <= i)

\* The directories response files are written to, the working directory
\* apart; nothing in the processor creates one.
Directories == { DirName(p) : p \in ResponsePaths } \ {<<>>}

\* open(path, "a") finds the directory of path.
DirExists(dirs, path) == DirName(path) = <<>> \/ DirName(path) \in dirs

FileLists ==
    { <<f>> : f \in RequestFiles } \cup
    { <<f, g>> : f \in RequestFiles, g \in {<<"requests_", "0.jsonl">>} }

AbsentFile == [exists |-> FALSE, content |-> <<>>]

\* What an earlier run may have left at a response path: nothing, a failed
\* response, a response whose "\n" was not written, a response cut short.
EarlierLogs ==
    { AbsentFile,
      [exists |-> TRUE,
       content |-> DumpLine([row |-> 0, err |-> TRUE, msg |-> FALSE])],
      [exists |-> TRUE,
       content |-> <<JsonTok([row |-> 0, err |-> FALSE, msg |-> TRUE])>>],
      [exists |-> TRUE,
       content |-> <<CutTok([row |-> 0, err |-> FALSE, msg |-> TRUE])>>] }

\* What process_requests answers for a row: a message, a message with
\* errors, or errors only.
BatchOutcomes ==
    { [err |-> FALSE, msg |-> TRUE], [err |-> TRUE, msg |-> TRUE],
      [err |-> TRUE, msg |-> FALSE] }

\* The resume loop over the lines of the log; it stops at the first line
\* that does not validate.
RECURSIVE ResumeLoop(_, _)
ResumeLoop(ls, st) ==
    IF ls = <<>> THEN [st |-> st, raised |-> FALSE]
    ELSE IF ~Validates(Head(ls)) THEN [st |-> st, raised |-> TRUE]
    ELSE ResumeLoop(Tail(ls), ResumeLine(st, Head(ls)))

RECURSIVE NoRetryLoop(_, _)
NoRetryLoop(ls, st) ==
    IF ls = <<>> THEN [st |-> st, raised |-> FALSE]
    ELSE IF ~Validates(Head(ls)) THEN [st |-> st, raised |-> TRUE]
    ELSE NoRetryLoop(Tail(ls), NoRetryLine(st, Head(ls)))

\* The save loop: every response is appended.
RECURSIVE SaveLoop(_, _)
SaveLoop(f, rs) ==
    IF rs = <<>> THEN f ELSE SaveLoop(WriteResponse(f, Head(rs)), Tail(rs))

\* From the request list on: process_requests answers every request as
\* outcome says, and the answers are appended to the log.  When the
\* directory of save_filepath does not exist, open(save_filepath, "a")
\* raises FileNotFoundError after process_requests has returned.
DispatchAndSave(content, done, tmp, dir_exists, outcome, prompted) ==
    LET reqs == BuildRequests(reqFile, done)
        rs   == [i \in 1 .. Len(reqs) |->
                    [row |-> reqs[i], err |-> outcome[reqs[i]].err,
                     msg |-> outcome[reqs[i]].msg]]
    IN  IF dir_exists
        THEN [log |-> [exists |-> TRUE, content |-> SaveLoop(content, rs)],
              temp |-> tmp, dispatched |-> Len(reqs), prompted |-> prompted,
              done |-> done, status |-> "returned"]
        ELSE [log |-> AbsentFile,
              temp |-> tmp, dispatched |-> Len(reqs), prompted |-> prompted,
              done |-> done, status |-> "raised"]

\* process_requests_from_file on the log at save_filepath; a log that exists
\* has its directory.
ProcessRequestsFromFile(log, tmp, dir_exists, res, no_retry, answer, outcome) ==
    LET st0 == [failed |-> 0, done |-> {}, out |-> <<>>]
        stopped(t, prompted, status) ==
            [log |-> log, temp |-> t, dispatched |-> 0, prompted |-> prompted,
             done |-> {}, status |-> status]
    IN  IF ~log.exists
        THEN DispatchAndSave(<<>>, {}, tmp, dir_exists, outcome, FALSE)
        ELSE IF res
        THEN LET r == ResumeLoop(ReadLines(log.content), st0)
             IN  IF r.raised
                 THEN stopped([exists |-> TRUE, content |-> r.st.out], FALSE,
                              "raised")
                 ELSE DispatchAndSave(r.st.out, r.st.done, AbsentFile, TRUE,
                                      outcome, FALSE)
        ELSE IF no_retry
        THEN LET r == NoRetryLoop(ReadLines(log.content), st0)
             IN  IF r.raised
                 THEN stopped(tmp, FALSE, "raised")
                 ELSE DispatchAndSave(log.content, r.st.done, tmp, TRUE,
                                      outcome, FALSE)
        ELSE IF PromptDeclines(answer)
             THEN stopped(tmp, TRUE, "aborted")
             ELSE DispatchAndSave(log.content, {}, tmp, TRUE, outcome, TRUE)

BatchInit ==
    /\ rb_pc = "idle"
    /\ rb_invocation = "none"
    /\ rb_files = <<>>
    /\ rb_i = 0
    /\ rb_store = [p \in ResponsePaths |-> AbsentFile]
    /\ rb_temps = [p \in ResponsePaths |-> AbsentFile]
    /\ rb_dirs = {}
    /\ rb_first = [p \in ResponsePaths |-> AbsentFile]
    /\ rb_trace = <<>>
    /\ rb_dispatched = 0
    /\ rb_prompted = FALSE

----------------------------------------------------------------------------
\* The resume compaction as a function of the log

\* What a log may hold: complete responses, responses cut short, "\n".
LogTokens ==
    {JsonTok(r) : r \in Response}
        \cup {CutTok([row |-> 0, err |-> FALSE, msg |-> TRUE]), NL}

Logs == UNION { [1 .. n -> LogTokens] : n \in 0 .. MaxLogLen }

NoCompaction == [save |-> <<>>, done |-> {}, raised |-> FALSE]

\* The resume branch of process_requests_from_file on a log: the loop, then
\* os.replace; when a line does not validate the log stays as it was.
Compaction(f) ==
    LET r == ResumeLoop(ReadLines(f), [failed |-> 0, done |-> {}, out |-> <<>>])
    IN  [save |-> IF r.raised THEN f ELSE r.st.out,
         done |-> r.st.done,
         raised |-> r.raised]

CompactInit ==
    /\ cp_pc = "idle"
    /\ cp_log = <<>>
    /\ cp_once = NoCompaction
    /\ cp_twice = NoCompaction

Init ==
    /\ OfflineInit
    /\ OnlineInit
    /\ EstimateInit
    /\ CacheInit
    /\ CallInit
    /\ SupportInit
    /\ CountInit
    /\ BatchInit
    /\ CompactInit

Next ==
    \/ Call
    \/ CompactLine
    \/ Replace
    \/ ScanLine
    \/ Prompt
    \/ Dispatch
    \/ TaskCompletes
    \/ OpenSave
    \/ WriteLine
    \/ Crash

Spec == Init /\ [][Next]_vars

----------------------------------------------------------------------------
\* Vocabulary of the properties

Range(q) == {q[i] : i \in 1 .. Len(q)}

IsPrefix(a, b) == Len(a) <= Len(b) /\ SubSeq(b, 1, Len(a)) = a

RECURSIVE Flatten(_)
Flatten(ls) == IF ls = <<>> THEN <<>> ELSE Head(ls) \o Flatten(Tail(ls))

Terminated(line) == line # <<>> /\ line[Len(line)].kind = "nl"

\* The newline-terminated lines of a file, the lines a reader of the log
\* consumes.
TermLines(f) == SelectSeq(ReadLines(f), Terminated)

\* A line that holds one complete response, and that response.
IsResponseLine(line) == Len(Body(line)) = 1 /\ Body(line)[1].kind = "json"

ResponseOf(line) ==
    [row |-> line[1].row, err |-> line[1].err, msg |-> line[1].msg]

\* A failed response: non-empty response_errors or null response_message.
Failed(r) == r.err \/ ~r.msg

FailedLine(line) == IsResponseLine(line) /\ Failed(ResponseOf(line))

\* The rows that have a response line in a file.
RowsIn(f) == {ResponseOf(l).row : l \in {x \in Range(ReadLines(f)) : IsResponseLine(x)}}

\* The run in progress (or just ended) found a log and is in the given mode.
Resuming == orig_exists /\ resume

ResumingNoRetry == orig_exists /\ ~resume /\ resume_no_retry

Overwriting == orig_exists /\ ~resume /\ ~resume_no_retry

\* The request list has been handed to process_requests.
Dispatched == pc \in {"process", "write", "returned"}

----------------------------------------------------------------------------
\* C1: in resume mode, every logged response with non-empty response_errors
\* or a null response_message is treated as failed: once the log has been
\* compacted its line is not in the log and its row is not in
\* completed_request_ids.
C1_FailedExcludedOnResume ==
    (Resuming /\ pc = "dispatch") =>
        \A l \in Range(ReadLines(orig)) :
            FailedLine(l) =>
                /\ ResponseOf(l).row \notin completed_request_ids
                /\ l \notin Range(ReadLines(save))

\* A log of N lines, one complete terminated response line per row of the
\* request file.
OneLinePerRow(f) ==
    LET ls == ReadLines(f)
    IN  /\ Len(ls) = Len(reqFile)
        /\ \A i \in 1 .. Len(ls) : IsResponseLine(ls[i]) /\ Terminated(ls[i])
        /\ \A i, j \in 1 .. Len(ls) :
              ResponseOf(ls[i]).row = ResponseOf(ls[j]).row => i = j
        /\ {ResponseOf(ls[i]).row : i \in 1 .. Len(ls)} = Range(reqFile)

NotFailedLine(line) == ~FailedLine(line)

\* C2: resume correctness.  For a log of N lines, one per row, K of them
\* failed, a resume run drops exactly the K failed lines, keeps the other
\* N-K lines unchanged and in order, and passes exactly the K failed rows to
\* process_requests.
C2_ResumeDropsExactlyFailed ==
    (Resuming /\ OneLinePerRow(orig) /\ pc = "process") =>
        LET failedRows == {ResponseOf(l).row :
                              l \in {x \in Range(ReadLines(orig)) : FailedLine(x)}}
        IN  /\ save = Flatten(SelectSeq(ReadLines(orig), NotFailedLine))
            /\ Range(requests) = failedRows
            /\ Len(requests) = Cardinality(failedRows)

\* Position of a row in the request file.
PosInReqFile(row) == CHOOSE k \in 1 .. Len(reqFile) : reqFile[k] = row

\* C3: the list passed to process_requests holds exactly the rows of the
\* request file that are not in completed_request_ids, once each and in
\* request-file order.
C3_RequestsAreUncompletedRows ==
    Dispatched =>
        /\ \A i \in 1 .. Len(requests) :
              /\ requests[i] \in Range(reqFile)
              /\ requests[i] \notin completed_request_ids
        /\ \A k \in 1 .. Len(reqFile) :
              reqFile[k] \notin completed_request_ids => reqFile[k] \in Range(requests)
        /\ \A i, j \in 1 .. Len(requests) :
              i < j => PosInReqFile(requests[i]) < PosInReqFile(requests[j])

C3_Witness ==
    /\ pc = "process"
    /\ completed_request_ids # {}
    /\ requests # <<>>
    /\ Len(requests) < Len(reqFile)

\* Every terminated line of f is a line of g, unchanged, at the same position.
LinesKept(f, g) ==
    /\ Len(TermLines(f)) <= Len(TermLines(g))
    /\ \A i \in 1 .. Len(TermLines(f)) : TermLines(g)[i] = TermLines(f)[i]

\* C4: in resume-without-retry mode every row that appears in the log,
\* failed or not, is done and is not passed to process_requests, rows absent
\* from the log are passed, and the existing log is not compacted: its
\* content stays and its lines keep their place.
C4_NoRetryKeepsLogAndSkipsLoggedRows ==
    ResumingNoRetry =>
        /\ (pc \in {"scan", "dispatch", "process", "raised"}) => save = orig
        /\ (pc \in {"write", "returned"}) => IsPrefix(orig, save) /\ LinesKept(orig, save)
        /\ Dispatched =>
              /\ Range(requests) \cap RowsIn(orig) = {}
              /\ Range(reqFile) \ RowsIn(orig) \subseteq Range(requests)

C4_Witness ==
    /\ ResumingNoRetry
    /\ pc = "returned"
    /\ \E l \in Range(ReadLines(orig)) : FailedLine(l)
    /\ requests # <<>>
    /\ save # orig

\* The state of a call that has returned without touching anything: the log
\* as it was, load_offline_model not called, nothing passed to
\* process_requests.
NothingDone ==
    /\ save = orig
    /\ save_exists = orig_exists
    /\ ~load_called
    /\ requests = <<>>
    /\ responses = <<>>

\* C5 as stated: when the log exists and no resume flag is set, an answer
\* other than 'y' or the empty string makes the call return with nothing
\* done.
C5_AnyOtherAnswerAborts ==
    (Overwriting /\ user_input \notin {"none", "y", ""}) =>
        pc = "aborted" /\ NothingDone

\* C5 as amended: the question comes before anything else is done, and an
\* answer that is not 'y', 'Y' or the empty string makes the call return with
\* nothing done.
C5_PromptFirstAndDeclineAborts ==
    Overwriting =>
        /\ (pc = "prompt") => user_input = "none" /\ NothingDone
        /\ (pc # "prompt") => user_input # "none"
        /\ (user_input \notin {"none", "y", "Y", ""}) => pc = "aborted" /\ NothingDone

C5_Witness ==
    /\ Overwriting
    /\ pc = "aborted"
    /\ user_input = "n"
    /\ save # <<>>

\* C6: a completed run that starts without a log, or with a log of one line
\* per input row, ends with a log of one line per input row (M rows give M
\* lines with pairwise distinct original_row_idx), in every mode.
C6_OneLinePerRowAfterRun ==
    (pc = "returned" /\ (~orig_exists \/ OneLinePerRow(orig))) => OneLinePerRow(save)

\* The lines the resume compaction keeps: complete responses with a message.
KeptOnResume(line) == IsResponseLine(line) /\ ResponseOf(line).msg

\* The complete compacted content of a log.
CompactedLog(f) == Flatten(SelectSeq(ReadLines(f), KeptOnResume))

\* C7: while the resume compaction runs, save_filepath holds the complete
\* original content, and any step out of it, a crash included, leaves
\* save_filepath with the complete original or the complete compacted
\* content.
C7_CompactionIsAtomic ==
    [][/\ (pc' = "compact") => save' = orig'
       /\ (pc = "compact") => save' \in {orig, CompactedLog(orig)}]_vars

C7_Witness ==
    /\ pc = "crashed"
    /\ temp_exists
    /\ temp # <<>>
    /\ Len(temp) < Len(save)

\* C8: whenever the run is interrupted, the response of every task that had
\* reached a terminal state is in the log.
C8_CompletedTasksAreLogged ==
    [][(pc' = "crashed") =>
          \A i \in 1 .. Len(responses) :
              DumpLine(responses[i]) \in Range(ReadLines(save'))]_vars

\* C9: from the moment dispatch begins a run only appends to the log: the
\* content present stays a prefix of the log and every line present keeps
\* its place, through every step to the end of the run.
C9_AppendOnlyAfterDispatch ==
    [][(pc \in {"dispatch", "process", "write"}) =>
          IsPrefix(save, save') /\ LinesKept(save, save')]_vars

C9_Witness ==
    /\ Resuming
    /\ pc = "returned"
    /\ completed_request_ids # {}
    /\ Len(CompactedLog(orig)) < Len(orig)
    /\ IsPrefix(CompactedLog(orig), save)
    /\ Len(save) > Len(CompactedLog(orig))

\* A log whose final line was cut short by a crash: every line before it is
\* a complete response, the last one does not decode.
TruncatedTail(f) ==
    LET ls == ReadLines(f)
    IN  /\ ls # <<>>
        /\ \A i \in 1 .. Len(ls) - 1 : IsResponseLine(ls[i]) /\ Terminated(ls[i])
        /\ ~Terminated(ls[Len(ls)])
        /\ Body(ls[Len(ls)])[1].kind = "cut"

\* C10: a resume on a log with a truncated final line discards that line:
\* it does not fail, it keeps every earlier successful line and it
\* resubmits the row of the partial line.
C10_TruncatedTailDiscarded ==
    (Resuming /\ TruncatedTail(orig)) =>
        /\ pc # "raised"
        /\ Dispatched =>
              LET ls == ReadLines(orig)
              IN  /\ ls[Len(ls)][1].row \in Range(requests)
                  /\ \A i \in 1 .. Len(ls) - 1 :
                        ~FailedLine(ls[i]) => ls[i] \in Range(ReadLines(save))

----------------------------------------------------------------------------
\* Part 2: the online processor

\* OpenAIOnlineRequestProcessor(config), statement by statement: the base
\* class stores the config (line 42), the url is chosen (43-46), the key is
\* read (47), get_token_encoding loads the tiktoken encoding (48, 235-244),
\* and get_header_based_rate_limits checks the key, sends the probe and
\* reads the two headers (49-51, 53-75).
Construct ==
    /\ on_pc = "new"
    /\ \E k \in ApiKeys, enc \in EncodingLoads :
        /\ api_key' = k
        /\ encoding_fetches' = IF enc = "cached" THEN encoding_fetches
                               ELSE encoding_fetches + 1
        /\ IF enc = "fetch_failed"
           THEN /\ on_pc' = "error"
                /\ UNCHANGED <<probes, hdr_rpm, hdr_tpm, max_rpm, max_tpm>>
           ELSE IF KeyMissing(k)
           THEN /\ on_pc' = "raised"
                /\ UNCHANGED <<probes, hdr_rpm, hdr_tpm, max_rpm, max_tpm>>
           ELSE \E r \in HeaderValues, t \in HeaderValues :
                /\ probes' = probes + 1
                /\ hdr_rpm' = r
                /\ hdr_tpm' = t
                /\ max_rpm' = GetHeaderBasedRateLimits(r, t).rpm
                /\ max_tpm' = GetHeaderBasedRateLimits(r, t).tpm
                /\ on_pc' = "ready"
    /\ UNCHANGED <<clock, task, attempts, tracker, failed_calls, rl_times,
                   done_in_cooldown>>
    /\ UNCHANGED nonOnlineVars

\* The dispatcher admits a queued request: the cooldown is over and both
\* budgets have headroom.
Admit ==
    /\ on_pc = "ready"
    /\ \E r \in Rows :
        /\ task[r] = "queued"
        /\ clock - tracker.time_of_last_rate_limit_error >= Cooldown
        /\ Cardinality(InFlight) + 1 <= max_rpm
        /\ SumEstimates(InFlight) + Estimate(r) <= max_tpm
        /\ task' = [task EXCEPT ![r] = "inflight"]
    /\ UNCHANGED <<on_pc, api_key, encoding_fetches, probes, hdr_rpm, hdr_tpm,
                   max_rpm, max_tpm,
                   clock, attempts, tracker, failed_calls, rl_times,
                   done_in_cooldown>>
    /\ UNCHANGED nonOnlineVars

\* The response of a call arrives and call_single_request returns or raises.
Respond ==
    /\ \E r \in Rows, payload \in Payloads :
        LET res == CallSingleRequest(tracker, payload, clock)
        IN  /\ task[r] = "inflight"
            /\ tracker' = res.tracker
            /\ task' = [task EXCEPT ![r] = IF res.raised THEN "raising"
                                           ELSE "succeeded"]
            /\ failed_calls' = IF res.raised THEN failed_calls + 1
                               ELSE failed_calls
            /\ rl_times' = IF payload.error \in {"Rate limit reached for requests",
                                                 "RATE LIMIT"}
                           THEN rl_times \cup {clock}
                           ELSE rl_times
            /\ done_in_cooldown' =
                  (done_in_cooldown \/
                     (~res.raised /\ \E T \in rl_times : T <= clock /\ clock < T + Cooldown))
    /\ UNCHANGED <<on_pc, api_key, encoding_fetches, probes, hdr_rpm, hdr_tpm,
                   max_rpm, max_tpm,
                   clock, attempts>>
    /\ UNCHANGED nonOnlineVars

\* The caller of call_single_request catches the exception: it counts one
\* other error and queues the request again, or gives it up after
\* MaxRetries failed calls.
HandleFailure ==
    /\ \E r \in Rows :
        /\ task[r] = "raising"
        /\ tracker' = [tracker EXCEPT !.num_other_errors = @ + 1]
        /\ attempts' = [attempts EXCEPT ![r] = @ + 1]
        /\ task' = [task EXCEPT ![r] = IF attempts[r] + 1 > MaxRetries
                                       THEN "failed" ELSE "queued"]
    /\ UNCHANGED <<on_pc, api_key, encoding_fetches, probes, hdr_rpm, hdr_tpm,
                   max_rpm, max_tpm,
                   clock, failed_calls, rl_times, done_in_cooldown>>
    /\ UNCHANGED nonOnlineVars

\* Time passes.
Tick ==
    /\ on_pc = "ready"
    /\ clock < MaxTime
    /\ clock' = clock + 1
    /\ UNCHANGED <<on_pc, api_key, encoding_fetches, probes, hdr_rpm, hdr_tpm,
                   max_rpm, max_tpm,
                   task, attempts, tracker, failed_calls, rl_times,
                   done_in_cooldown>>
    /\ UNCHANGED nonOnlineVars

NextOnline ==
    \/ Construct
    \/ Admit
    \/ Respond
    \/ HandleFailure
    \/ Tick

SpecOnline == Init /\ [][NextOnline]_vars

----------------------------------------------------------------------------
\* Properties of the online processor

\* C11: no status-tracker counter ever decreases and none is ever negative.
C11_CountersMonotone ==
    [][/\ tracker'.num_api_errors >= tracker.num_api_errors
       /\ tracker'.num_rate_limit_errors >= tracker.num_rate_limit_errors
       /\ tracker'.num_other_errors >= tracker.num_other_errors
       /\ tracker'.num_api_errors >= 0
       /\ tracker'.num_rate_limit_errors >= 0
       /\ tracker'.num_other_errors >= 0]_vars

\* C12: a rate-limit error detected at time T is recorded in
\* time_of_last_rate_limit_error, and no request is admitted before
\* T + Cooldown for any such T.
C12_CooldownEnforced ==
    [][/\ (rl_times' # rl_times) => tracker'.time_of_last_rate_limit_error = clock
       /\ \A r \in Rows :
             (task[r] = "queued" /\ task'[r] = "inflight") =>
                 \A T \in rl_times : clock >= T + Cooldown]_vars

\* A call already in flight returned its response during a cooldown.
C12_Witness == done_in_cooldown /\ rl_times # {}

\* The capacity a rate-limit header makes known.
KnownCapacity(h) == IF h = -1 THEN 0 ELSE h

C14_MissingKeyFailsFast ==
    (on_pc # "new" /\ api_key = "None") =>
        /\ on_pc = "raised"
        /\ encoding_fetches = 0
        /\ probes = 0
        /\ failed_calls = 0
        /\ \A r \in Rows : task[r] = "queued" /\ attempts[r] = 0

\* C20: once the caller has counted the exception, the three error counters
\* together have grown by exactly one per failed call.
C20_OneCounterPerFailedCall ==
    (\A r \in Rows : task[r] # "raising") =>
        tracker.num_api_errors + tracker.num_rate_limit_errors
            + tracker.num_other_errors = failed_calls

----------------------------------------------------------------------------
\* Part 3: estimate_total_tokens

MessageLists == UNION { [1..n -> Messages] : n \in 0..MaxMsgs }

\* A request is about to be admitted: its messages and the model are given.
CallEstimate ==
    /\ est_pc = "idle"
    /\ \E ms \in MessageLists, max \in MaxTokens :
          /\ est_messages' = ms
          /\ est_max' = max
    /\ est_pc' = "called"
    /\ UNCHANGED est_result
    /\ UNCHANGED nonEstVars

ReturnEstimate ==
    /\ est_pc = "called"
    /\ est_result' = EstimateTotalTokens(est_messages, est_max)
    /\ est_pc' = "returned"
    /\ UNCHANGED <<est_messages, est_max>>
    /\ UNCHANGED nonEstVars

NextEstimate ==
    \/ CallEstimate
    \/ ReturnEstimate

SpecEstimate == Init /\ [][NextEstimate]_vars

\* The token count of the payload: four tokens of framing per message, the
\* tokens of every value, one less when a name replaces the role, and two
\* to prime the reply.
RECURSIVE PayloadTokens(_)
PayloadTokens(ms) ==
    IF ms = <<>> THEN 2
    ELSE LET m == Head(ms) IN
         4 + m.role.tok + m.content.tok
           + (IF m.has_name THEN m.name.tok - 1 ELSE 0)
           + PayloadTokens(Tail(ms))

\* The longest completion of the model, 0 when the model is unknown.
WorstCaseCompletion == IF est_max = -1 THEN 0 ELSE est_max

\* C15: the estimate is at least the tokens of the payload plus the longest
\* completion of the model.
C15_EstimateIsPessimistic ==
    est_pc = "returned" =>
        est_result >= PayloadTokens(est_messages) + WorstCaseCompletion

----------------------------------------------------------------------------
\* Part 4: the cache

\* One call of the pipeline: the lookup comes first; a hit loads the stored
\* dataset, a miss executes and stores the result in a new directory.
RunPipeline ==
    /\ runs < MaxRuns
    /\ \E def \in Definitions, ds \in Datasets :
          LET fp  == Fingerprint(def, ds)
              hit == CacheHit(cache_registry, fp)
              out == IF hit THEN cache_registry[fp] ELSE Execute(def, ds)
              rec == [def |-> def, ds |-> ds, process |-> process,
                      fhash |-> GetFunctionHash(def), fp |-> fp, hit |-> hit,
                      result |-> out, calls |-> IF hit THEN 0 ELSE 1]
          IN  /\ cache_registry' =
                     IF hit THEN cache_registry ELSE (fp :> out) @@ cache_registry
              /\ remote_calls' = remote_calls + rec.calls
              /\ run_log' = IF Len(run_log) = 2 THEN <<run_log[2], rec>>
                            ELSE Append(run_log, rec)
              /\ inputs_run' = inputs_run \cup {<<def.value, def.nested, ds>>}
    /\ runs' = runs + 1
    /\ UNCHANGED process
    /\ UNCHANGED nonCacheVars

\* The process ends and another one starts in the same working directory.
Restart ==
    /\ process' = 1 - process
    /\ UNCHANGED <<cache_registry, remote_calls, runs, run_log, inputs_run>>
    /\ UNCHANGED nonCacheVars

NextCache ==
    \/ RunPipeline
    \/ Restart

SpecCache == Init /\ [][NextCache]_vars

----------------------------------------------------------------------------
\* Properties of the cache

\* The two most recent runs.
TwoRuns == Len(run_log) = 2

FirstRun == run_log[1]

SecondRun == run_log[2]

CacheDirs == DOMAIN cache_registry

SameSource(a, b) == a.def.value = b.def.value /\ a.def.nested = b.def.nested

\* C16: when the same pipeline runs again on the same dataset, the run is a
\* cache hit that returns the stored result without a remote call and uses
\* the directory of the first run; as long as one pipeline only has been
\* run, there is exactly one cache directory and one remote call was made.
C16_CacheIdempotence ==
    /\ (TwoRuns /\ FirstRun.def = SecondRun.def /\ FirstRun.ds = SecondRun.ds) =>
           /\ SecondRun.hit
           /\ SecondRun.calls = 0
           /\ SecondRun.result = FirstRun.result
           /\ SecondRun.fp = FirstRun.fp
    /\ Cardinality(inputs_run) = 1 =>
           /\ Cardinality(CacheDirs) = 1
           /\ remote_calls = 1

\* The same pipeline has run MaxRuns times, in two processes.
C16_Witness ==
    /\ runs = MaxRuns
    /\ Cardinality(inputs_run) = 1
    /\ TwoRuns
    /\ FirstRun.def = SecondRun.def
    /\ FirstRun.ds = SecondRun.ds
    /\ FirstRun.process # SecondRun.process

\* C17: two runs that differ in the dataset or in the captured value have
\* different fingerprints and each returns the output of its own input;
\* there are as many cache directories as different inputs, and every
\* input has a directory that holds its output.
C17_CacheBranching ==
    /\ (TwoRuns /\ (FirstRun.ds # SecondRun.ds
                       \/ FirstRun.def.value # SecondRun.def.value)) =>
           /\ FirstRun.fp # SecondRun.fp
           /\ FirstRun.result = Execute(FirstRun.def, FirstRun.ds)
           /\ SecondRun.result = Execute(SecondRun.def, SecondRun.ds)
    /\ Cardinality(CacheDirs) = Cardinality(inputs_run)
    /\ \A i \in inputs_run : \E fp \in CacheDirs : cache_registry[fp] = i

\* MaxRuns pairwise different inputs have been run, the last two differ in
\* the dataset only.
C17_Witness ==
    /\ Cardinality(inputs_run) = MaxRuns
    /\ TwoRuns
    /\ FirstRun.def = SecondRun.def
    /\ FirstRun.ds # SecondRun.ds

\* C19: a change of the literal of the prompt function or of the function
\* it calls changes the fingerprint, and the run that follows the first run
\* of a working directory is then a miss that executes and creates a second
\* directory; a change of the name or the location only leaves the
\* fingerprint as it was, and the run is a hit.
C19_FingerprintSensitivity ==
    TwoRuns =>
        /\ (FirstRun.ds = SecondRun.ds /\ ~SameSource(FirstRun, SecondRun)) =>
               /\ FirstRun.fp # SecondRun.fp
               /\ {FirstRun.fp, SecondRun.fp} \subseteq CacheDirs
               /\ runs = 2 =>
                      /\ ~SecondRun.hit
                      /\ SecondRun.calls = 1
                      /\ SecondRun.result = Execute(SecondRun.def, SecondRun.ds)
                      /\ Cardinality(CacheDirs) = 2
        /\ (FirstRun.ds = SecondRun.ds /\ SameSource(FirstRun, SecondRun)) =>
               /\ FirstRun.fp = SecondRun.fp
               /\ SecondRun.hit

\* The second run of a working directory changed the nested literal only.
C19_Witness ==
    /\ runs = 2
    /\ TwoRuns
    /\ FirstRun.ds = SecondRun.ds
    /\ FirstRun.def.name = SecondRun.def.name
    /\ FirstRun.def.loc = SecondRun.def.loc
    /\ FirstRun.def.value = SecondRun.def.value
    /\ FirstRun.def.nested # SecondRun.def.nested
    /\ ~SecondRun.hit

----------------------------------------------------------------------------
\* Part 5: call_single_request

\* session.post is entered with a request; the response is what the
\* endpoint answers.
SendCall ==
    /\ call_pc # "sent"
    /\ calls_made < MaxCalls
    /\ \E request \in CallRequests, payload \in CallPayloads, now \in CallTimes :
          /\ call_request' = request
          /\ call_payload' = payload
          /\ call_now' = now
    /\ call_pc' = "sent"
    /\ UNCHANGED <<call_tracker, call_result, calls_made>>
    /\ UNCHANGED nonCallVars

\* The rest of call_single_request: the tests of the response, then the
\* GenericResponse; a body without "choices" or "usage" raises KeyError.
ReturnCall ==
    /\ call_pc = "sent"
    /\ LET res    == CallSingleRequest(call_tracker, call_payload, call_now)
           raised == res.raised \/ ~call_payload.wellformed
       IN  /\ call_tracker' = res.tracker
           /\ call_pc' = IF raised THEN "raised" ELSE "returned"
           /\ call_result' = IF raised THEN NoResponse
                             ELSE GenericResponseOf(call_request, call_payload)
    /\ calls_made' = calls_made + 1
    /\ UNCHANGED <<call_request, call_payload, call_now>>
    /\ UNCHANGED nonCallVars

NextCall ==
    \/ SendCall
    \/ ReturnCall

SpecCall == Init /\ [][NextCall]_vars

\* The body has an "error" whose message contains "rate limit" in any case.
RateLimitPayload(p) ==
    p.error \in {"Rate limit reached for requests", "RATE LIMIT"}

\* The body has no "error" and the status is 200.
SuccessPayload(p) == p.error = "none" /\ p.status = 200

\* C21: a call ends by returning or by raising; it returns, with
\* response_errors None and the generic_request and created_at of the
\* request, only on a body without "error" with status 200, and raises on
\* every other response; time_of_last_rate_limit_error and
\* num_rate_limit_errors change on a rate-limit error and on nothing else.
C21_ResponseClassification ==
    [][call_pc = "sent" =>
          /\ call_pc' \in {"sent", "returned", "raised"}
          /\ call_pc' = "returned" =>
                /\ SuccessPayload(call_payload)
                /\ call_result'.response_errors = "None"
                /\ call_result'.generic_request = call_request.generic_request
                /\ call_result'.created_at = call_request.created_at
          /\ (call_pc' # "sent" /\ ~SuccessPayload(call_payload)) =>
                call_pc' = "raised"
          /\ (call_pc' # "sent" /\ RateLimitPayload(call_payload)) =>
                /\ call_tracker'.time_of_last_rate_limit_error = call_now
                /\ call_tracker'.num_rate_limit_errors
                      = call_tracker.num_rate_limit_errors + 1
          /\ ~RateLimitPayload(call_payload) =>
                /\ call_tracker'.time_of_last_rate_limit_error
                      = call_tracker.time_of_last_rate_limit_error
                /\ call_tracker'.num_rate_limit_errors
                      = call_tracker.num_rate_limit_errors]_vars

\* A call returned a response after an earlier call had met a rate-limit
\* error.
C21_Witness ==
    /\ call_pc = "returned"
    /\ calls_made = 2
    /\ call_tracker.num_rate_limit_errors = 1
    /\ call_tracker.time_of_last_rate_limit_error \in CallTimes
    /\ call_result.generic_request = call_request.generic_request

----------------------------------------------------------------------------
\* Part 8: requests_to_responses

\* requests_to_responses is called for the first time; an earlier run may
\* have left a log at the response path of the first file, and the
\* directories of the response paths may exist or not.
StartFirst ==
    /\ rb_pc = "idle"
    /\ rb_invocation = "none"
    /\ \E files \in FileLists, earlier \in EarlierLogs,
          dirs \in SUBSET Directories :
          /\ earlier.exists => DirExists(dirs, StrReplace(files[1]))
          /\ rb_dirs' = dirs
          /\ rb_files' = files
          /\ rb_store' = [p \in ResponsePaths |->
                             IF p = StrReplace(files[1]) THEN earlier
                             ELSE AbsentFile]
    /\ rb_invocation' = "first"
    /\ rb_pc' = "running"
    /\ UNCHANGED <<rb_i, rb_temps, rb_first, rb_trace, rb_dispatched,
                   rb_prompted>>
    /\ UNCHANGED nonBatchVars

\* One iteration of the loop over generic_request_files.
ProcessFile ==
    /\ rb_pc = "running"
    /\ rb_i < Len(rb_files)
    /\ \E outcome \in [Rows -> BatchOutcomes], answer \in Answers :
          LET request_file  == rb_files[rb_i + 1]
              response_file == StrReplace(request_file)
              res == ProcessRequestsFromFile(rb_store[response_file],
                                             rb_temps[response_file],
                                             DirExists(rb_dirs, response_file),
                                             TRUE, FALSE, answer, outcome)
          IN  /\ rb_store' = [rb_store EXCEPT ![response_file] = res.log]
              /\ rb_temps' = [rb_temps EXCEPT ![response_file] = res.temp]
              /\ rb_trace' = Append(rb_trace,
                                    [generic_request_filepath |-> request_file,
                                     save_filepath |-> response_file,
                                     resume |-> TRUE])
              /\ rb_dispatched' = rb_dispatched + res.dispatched
              /\ rb_prompted' = (rb_prompted \/ res.prompted)
              /\ rb_pc' = IF res.status = "raised" THEN "raised" ELSE "running"
    /\ rb_i' = rb_i + 1
    /\ UNCHANGED <<rb_invocation, rb_files, rb_dirs, rb_first>>
    /\ UNCHANGED nonBatchVars

\* The loop is over and requests_to_responses returns.
ReturnBatch ==
    /\ rb_pc = "running"
    /\ rb_i = Len(rb_files)
    /\ rb_pc' = "returned"
    /\ UNCHANGED <<rb_invocation, rb_files, rb_i, rb_store, rb_temps, rb_dirs,
                   rb_first, rb_trace, rb_dispatched, rb_prompted>>
    /\ UNCHANGED nonBatchVars

\* requests_to_responses is called again with the same list.
StartSecond ==
    /\ rb_pc \in {"returned", "raised"}
    /\ rb_invocation = "first"
    /\ rb_invocation' = "second"
    /\ rb_first' = rb_store
    /\ rb_i' = 0
    /\ rb_trace' = <<>>
    /\ rb_dispatched' = 0
    /\ rb_prompted' = FALSE
    /\ rb_pc' = "running"
    /\ UNCHANGED <<rb_files, rb_store, rb_temps, rb_dirs>>
    /\ UNCHANGED nonBatchVars

NextBatch ==
    \/ StartFirst
    \/ ProcessFile
    \/ ReturnBatch
    \/ StartSecond

SpecBatch == Init /\ [][NextBatch]_vars

\* resp is req with every "requests_" replaced by "responses_".
IsReplaced(req, resp) ==
    /\ Len(resp) = Len(req)
    /\ \A i \in 1 .. Len(req) :
          resp[i] = IF req[i] = "requests_" THEN "responses_" ELSE req[i]

\* Every response in the log is complete and successful, and every row has
\* one.
SucceededLog(log) ==
    /\ log.exists
    /\ \A i \in 1 .. Len(log.content) :
          /\ log.content[i].kind # "cut"
          /\ log.content[i].kind = "json" =>
                log.content[i].msg /\ ~log.content[i].err
    /\ \A r \in Rows :
          \E i \in 1 .. Len(log.content) :
              log.content[i].kind = "json" /\ log.content[i].row = r

\* After the first invocation every row of every file of the list had
\* succeeded.
FirstFullySuccessful ==
    \A k \in 1 .. Len(rb_files) :
        \A p \in ResponsePaths :
            IsReplaced(rb_files[k], p) => SucceededLog(rb_first[p])

\* C22: requests_to_responses takes the files in list order, with
\* resume=True and the response path that replaces "requests_" by
\* "responses_"; once every row has succeeded in the first invocation, the
\* second one dispatches no request, never prompts, and leaves every
\* response file with the same lines.
C22_SecondInvocationIsIdle ==
    /\ \A k \in 1 .. Len(rb_trace) :
          /\ rb_trace[k].generic_request_filepath = rb_files[k]
          /\ IsReplaced(rb_files[k], rb_trace[k].save_filepath)
          /\ rb_trace[k].resume
    /\ (rb_invocation = "second" /\ FirstFullySuccessful) =>
          /\ rb_dispatched = 0
          /\ ~rb_prompted
          /\ \A p \in ResponsePaths :
                /\ rb_store[p].exists = rb_first[p].exists
                /\ ReadLines(rb_store[p].content) = ReadLines(rb_first[p].content)

\* The second invocation, on two files whose rows had all succeeded, has
\* returned; one path holds "requests_" twice.
C22_Witness ==
    /\ rb_invocation = "second"
    /\ rb_pc = "returned"
    /\ FirstFullySuccessful
    /\ Len(rb_trace) = 2
    /\ rb_files[1] # rb_files[2]
    /\ Len(rb_files[1]) = 4

----------------------------------------------------------------------------
\* Both flags at once, and the compaction applied twice

\* The call found a log and was given both resume and resume_no_retry.
BothFlags == orig_exists /\ resume /\ resume_no_retry

\* What the resume loop alone makes of a log.
ResumeAlone(f) ==
    ResumeLoop(ReadLines(f), [failed |-> 0, done |-> {}, out |-> <<>>]).st

\* The log and the completed set are those of a call with resume alone.
SameAsResumeAlone ==
    /\ save = ResumeAlone(orig).out
    /\ completed_request_ids = ResumeAlone(orig).done
    /\ user_input = "none"

\* C23: with resume and resume_no_retry both set on an existing log, the
\* call does what it does with resume alone: the failed lines are dropped
\* from the log and their rows are not completed, so that they are
\* submitted again.
C23_BothFlagsActAsResume ==
    (BothFlags /\ pc = "dispatch") =>
        /\ SameAsResumeAlone
        /\ \A l \in Range(ReadLines(orig)) :
              FailedLine(l) =>
                  /\ l \notin Range(ReadLines(save))
                  /\ ResponseOf(l).row \notin completed_request_ids

----------------------------------------------------------------------------
\* Part 9: the compaction applied twice

\* A log is found at save_filepath.
ChooseLog ==
    /\ cp_pc = "idle"
    /\ cp_log' \in Logs
    /\ cp_pc' = "chosen"
    /\ UNCHANGED <<cp_once, cp_twice>>
    /\ UNCHANGED nonCompactVars

\* A call with resume=True compacts the log.
CompactOnce ==
    /\ cp_pc = "chosen"
    /\ cp_once' = Compaction(cp_log)
    /\ cp_pc' = IF cp_once'.raised THEN "raised" ELSE "once"
    /\ UNCHANGED <<cp_log, cp_twice>>
    /\ UNCHANGED nonCompactVars

\* The next call with resume=True compacts the compacted log.
CompactAgain ==
    /\ cp_pc = "once"
    /\ cp_twice' = Compaction(cp_once.save)
    /\ cp_pc' = "twice"
    /\ UNCHANGED <<cp_log, cp_once>>
    /\ UNCHANGED nonCompactVars

NextCompact ==
    \/ ChooseLog
    \/ CompactOnce
    \/ CompactAgain

SpecCompact == Init /\ [][NextCompact]_vars

\* C24: the compaction of a compacted log does not raise and leaves the log
\* and completed_request_ids as the first compaction left them.
C24_CompactionIsIdempotent ==
    cp_pc = "twice" =>
        /\ ~cp_twice.raised
        /\ cp_twice.save = cp_once.save
        /\ cp_twice.done = cp_once.done

\* The first compaction dropped a line and kept one.
C24_Witness ==
    /\ cp_pc = "twice"
    /\ cp_once.save # cp_log
    /\ cp_once.save # <<>>

----------------------------------------------------------------------------
\* Part 6: check_structured_output_support

\* The method is called on a processor configured with a model.
CallSupport ==
    /\ sos_pc = "idle"
    /\ sos_model' \in ModelNames
    /\ sos_pc' = "called"
    /\ UNCHANGED sos_result
    /\ UNCHANGED nonSosVars

ReturnSupport ==
    /\ sos_pc = "called"
    /\ sos_result' = CheckStructuredOutputSupport(sos_model)
    /\ sos_pc' = IF sos_result' \in {"True", "False"} THEN "returned"
                 ELSE "raised"
    /\ UNCHANGED sos_model
    /\ UNCHANGED nonSosVars

NextSupport ==
    \/ CallSupport
    \/ ReturnSupport

SpecSupport == Init /\ [][NextSupport]_vars

\* The models that support structured output: the three undated names, and
\* the dated ones from their threshold on.
SupportedModels ==
    { <<"gpt-4o", "mini">>, <<"gpt-4o">>, <<"o1">> }
        \cup { <<"gpt-4o", "mini", d>> : d \in {"2024-07-18", "2024-08-06", "2024-12-17"} }
        \cup { <<"gpt-4o", d>> : d \in {"2024-08-06", "2024-12-17"} }
        \cup { <<"o1", d>> : d \in {"2024-12-17"} }

\* C25: the call returns, True for a supported model and False for every
\* other model name, and never raises.
C25_StructuredOutputSupport ==
    sos_pc \in {"returned", "raised"} =>
        /\ sos_pc = "returned"
        /\ sos_result = IF sos_model \in SupportedModels THEN "True" ELSE "False"

----------------------------------------------------------------------------
\* Part 7: count_lines

\* open(filename, "rb") on a file.
OpenFile ==
    /\ cl_pc = "idle"
    /\ cl_content' \in FileContents
    /\ cl_pc' = "open"
    /\ UNCHANGED <<cl_pos, cl_sum, cl_chunks, cl_result>>
    /\ UNCHANGED nonClVars

\* _file_gen yields one buffer: the raw read returns between one byte and
\* ChunkSize bytes, and its newlines are added to the sum.
ReadChunk ==
    /\ cl_pc = "open"
    /\ cl_pos < Len(cl_content)
    /\ \E n \in 1 .. ChunkSize :
          /\ cl_pos + n <= Len(cl_content)
          /\ cl_sum' = cl_sum
                         + CountNewlines(SubSeq(cl_content, cl_pos + 1, cl_pos + n))
          /\ cl_pos' = cl_pos + n
    /\ cl_chunks' = cl_chunks + 1
    /\ UNCHANGED <<cl_pc, cl_content, cl_result>>
    /\ UNCHANGED nonClVars

\* The read returns b"", the generator ends and count_lines returns the sum.
ReturnCount ==
    /\ cl_pc = "open"
    /\ cl_pos = Len(cl_content)
    /\ cl_result' = cl_sum
    /\ cl_pc' = "returned"
    /\ UNCHANGED <<cl_content, cl_pos, cl_sum, cl_chunks>>
    /\ UNCHANGED nonClVars

NextCount ==
    \/ OpenFile
    \/ ReadChunk
    \/ ReturnCount

SpecCount == Init /\ [][NextCount]_vars

\* The lines of a content: every line ends with its "\n", except possibly
\* the last one.
RECURSIVE ByteLines(_, _)
ByteLines(f, cur) ==
    IF f = <<>>
    THEN IF cur = <<>> THEN <<>> ELSE <<cur>>
    ELSE IF Head(f) = "\n"
         THEN <<Append(cur, Head(f))>> \o ByteLines(Tail(f), <<>>)
         ELSE ByteLines(Tail(f), Append(cur, Head(f)))

EndsWithNewline(line) == line # <<>> /\ line[Len(line)] = "\n"

\* The number of newline-terminated lines of a content.
TerminatedLineCount(f) == Len(SelectSeq(ByteLines(f, <<>>), EndsWithNewline))

\* C26: whatever the chunks, the sum of their newline counts is the number
\* of newline-terminated lines of the content read so far, and count_lines
\* returns that number for the whole content; a last line without "\n" is
\* not counted.
C26_CountLines ==
    /\ cl_sum = TerminatedLineCount(SubSeq(cl_content, 1, cl_pos))
    /\ cl_pc = "returned" => cl_result = TerminatedLineCount(cl_content)

\* A file read in several chunks, one of them short, with a last line that
\* has no "\n".
C26_Witness ==
    /\ cl_pc = "returned"
    /\ cl_chunks > 2
    /\ cl_chunks * ChunkSize > Len(cl_content) + 1
    /\ cl_result > 0
    /\ cl_content[Len(cl_content)] # "\n"

====
